---- MODULE Spec2Model ----
(***************************************************************************)
(* Model of the translate crate: Translator::new walks a directory tree    *)
(* and builds the map language-directory-name -> Bundle; get_message,      *)
(* translate_without_arguments, translate and MessageTranslator::build     *)
(* resolve a key with the two fallbacks and format it.                     *)
(*                                                                         *)
(* The filesystem is the environment: each step of the walk receives the   *)
(* next entry of the root directory, or the next file of the language      *)
(* directory being loaded, as an input.  Texts are sequences of string     *)
(* fragments.                                                              *)
(***************************************************************************)
EXTENDS Naturals, Sequences, FiniteSets, TLC

\* ------------------------------------------------------------------ bounds
\* Largest number of top-level entries the root directory iterator yields.
MaxEntries == 2
\* Largest number of file entries a language directory iterator yields.
MaxFiles == 2

\* ------------------------------------------------------------- input sets
\* The path handed to Translator::new.
directory_path == <<"locales">>

\* Names a top-level entry can carry; "en-USA" is no language identifier.
Names == {"en-US", "en_US", "es-ES", "en-USA"}

\* Values Language::as_str() can render to.
Languages == {"en-US", "es-ES", "fr-FR"}

\* Languages given as default_language.
DefaultLanguages == {"en-US", "es-ES", "en-USA"}

\* Values TranslationKey::as_str() can render to.
Keys == {"hello", "brand"}

\* io::Error texts of a failed read_dir.
IoErrors == {"Permission denied", "Not a directory"}

ArgNames == {"name"}
ArgValues == {"Alex"}

Invalid == "<invalid>"
NoError == ""

\* ------------------------------------------------------ fluent resources
Text(s) == [t |-> "text", v |-> s]
Var(s) == [t |-> "var", v |-> s]
MsgRef(s) == [t |-> "msg", v |-> s]

Msg(id, pattern) == [id |-> id, has_value |-> TRUE, value |-> pattern]
MsgNoValue(id) == [id |-> id, has_value |-> FALSE, value |-> <<>>]

\* The contents a readable, parseable resource file can have: the sequence
\* of its message entries.
ResHello == <<Msg("hello", <<Text("Hello")>>)>>
ResGreeting ==
  <<Msg("hello", <<Text("Hi "), Var("name")>>), Msg("brand", <<MsgRef("hello"), Text(" Inc")>>)>>
ResNoValue == <<MsgNoValue("brand")>>

Resources == {ResHello, ResGreeting, ResNoValue}

\* A file entry of a language directory: the DirEntry result, the result of
\* read_to_string, the result of FluentResource::try_new, and the entries.
FileInputs ==
  {[entry_ok |-> FALSE, read_ok |-> FALSE, parse_ok |-> FALSE, resource |-> <<>>],
   [entry_ok |-> TRUE, read_ok |-> FALSE, parse_ok |-> FALSE, resource |-> <<>>],
   [entry_ok |-> TRUE, read_ok |-> TRUE, parse_ok |-> FALSE, resource |-> <<>>]}
  \cup {[entry_ok |-> TRUE, read_ok |-> TRUE, parse_ok |-> TRUE, resource |-> r] : r \in Resources}

\* A top-level entry of the root directory: the DirEntry result, its name,
\* what the entry is, whether file_type() answers, and, for a directory,
\* the result of read_dir on it (NoError, or the io::Error text).
EntryError ==
  [ok |-> FALSE, name |-> "", is_dir |-> FALSE, type_ok |-> FALSE, list_error |-> NoError]

EntryInputs ==
  {EntryError}
  \cup [ok : {TRUE}, name : Names, is_dir : {FALSE}, type_ok : {TRUE}, list_error : {NoError}]
  \cup [ok : {TRUE}, name : Names, is_dir : {TRUE}, type_ok : {FALSE}, list_error : {NoError}]
  \cup [ok : {TRUE}, name : Names, is_dir : {TRUE}, type_ok : {TRUE},
        list_error : {NoError} \cup IoErrors]

\* ------------------------------------------------------------ the bundle
EmptyMap == [x \in {} |-> 0]

Put(map, k, v) == [x \in DOMAIN map \cup {k} |-> IF x = k THEN v ELSE map[x]]

\* unic_langid: the subtags are case-normalised and joined with "-";
\* a name that is no language identifier does not parse.
ParseLanguageIdentifier(name) ==
  CASE name = "en-US" -> "en-US"
    [] name = "en_US" -> "en-US"
    [] name = "es-ES" -> "es-ES"
    [] name = "fr-FR" -> "fr-FR"
    [] OTHER -> Invalid

\* Bundle::new_concurrent(languages): no entries yet.
NewConcurrent(languages) == [locales |-> languages, entries |-> EmptyMap]

\* FluentBundle::add_resource: every entry whose id is vacant is registered;
\* an entry whose id is occupied is left out and reported (Overriding).  The
\* result is Err when anything was reported.
RECURSIVE AddEntries(_, _, _)
AddEntries(entries, resource, i) ==
  IF i > Len(resource) THEN [entries |-> entries, errors |-> 0]
  ELSE LET m == resource[i] IN
       IF m.id \in DOMAIN entries
       THEN LET rest == AddEntries(entries, resource, i + 1)
            IN [entries |-> rest.entries, errors |-> rest.errors + 1]
       ELSE AddEntries(Put(entries, m.id, m), resource, i + 1)

AddResource(bundle, resource) ==
  LET r == AddEntries(bundle.entries, resource, 1)
  IN [bundle |-> [bundle EXCEPT !.entries = r.entries], is_err |-> r.errors > 0]

\* get_file_data: Some((content, file_name)) when the entry and the read
\* succeed, None otherwise.
GetFileData(file) ==
  IF ~file.entry_ok THEN [some |-> FALSE, content |-> file]
  ELSE IF file.read_ok THEN [some |-> TRUE, content |-> file]
  ELSE [some |-> FALSE, content |-> file]

\* FluentResource::try_new(content).
TryNew(content) == [is_ok |-> content.parse_ok, resource |-> content.resource]

\* The body of the loop over the files of one language directory, for one
\* file: the bundle afterwards and what happened to the file.
LoadFile(bundle, file) ==
  LET file_data == GetFileData(file) IN
  IF ~file_data.some THEN [bundle |-> bundle, outcome |-> "unreadable"]
  ELSE LET resource == TryNew(file_data.content) IN
       IF ~resource.is_ok THEN [bundle |-> bundle, outcome |-> "corrupt"]
       ELSE LET bundle_result == AddResource(bundle, resource.resource) IN
            [bundle |-> bundle_result.bundle,
             outcome |-> IF bundle_result.is_err THEN "rejected" ELSE "added"]

\* Variant of GetDirectoryData that forgets the is_dir test.
GetDirectoryDataAnyEntry(directory_entry_result) ==
  directory_entry_result.ok /\ directory_entry_result.type_ok

\* get_directory_data / is_directory: Some((directory, directory_name)) only
\* when the entry was read, its file type is known, and it is a directory.
GetDirectoryData(directory_entry_result) ==
  IF ~directory_entry_result.ok THEN FALSE
  ELSE IF ~directory_entry_result.type_ok THEN FALSE
  ELSE directory_entry_result.is_dir

\* ------------------------------------------------------------- formatting
TRANSLATION_FAILED == <<"An error has ocurred while trying to translate the message">>

FSI == "\\u{2068}"
PDI == "\\u{2069}"

\* Option<FluentArgs>.
NoArgs == [some |-> FALSE, map |-> EmptyMap]

\* Option<FluentMessage>.
NoMessage == [some |-> FALSE, msg |-> MsgNoValue("")]
SomeMessage(m) == [some |-> TRUE, msg |-> m]

\* FluentBundle::get_message(id).
BundleGetMessage(bundle, id) ==
  IF id \in DOMAIN bundle.entries THEN SomeMessage(bundle.entries[id]) ELSE NoMessage

\* FluentBundle::format_pattern: the text written and the errors pushed.
\* A variable is read from the arguments; a message reference is resolved in
\* the bundle that formats; placeables other than message references are
\* wrapped in isolation marks when the pattern has several elements.
RECURSIVE FormatPattern(_, _, _, _)
FormatElement(bundle, pattern, element, args, travelled) ==
  CASE element.t = "text" -> [text |-> <<element.v>>, errors |-> <<>>]
    [] element.t = "var" ->
         LET inner == IF args.some /\ element.v \in DOMAIN args.map
                      THEN [text |-> <<args.map[element.v]>>, errors |-> <<>>]
                      ELSE [text |-> <<"{$", element.v, "}">>, errors |-> <<"Reference">>]
         IN IF Len(pattern) > 1
            THEN [text |-> <<FSI>> \o inner.text \o <<PDI>>, errors |-> inner.errors]
            ELSE inner
    [] element.t = "msg" ->
         IF element.v \notin DOMAIN bundle.entries
         THEN [text |-> <<"{", element.v, "}">>, errors |-> <<"Reference">>]
         ELSE LET m == bundle.entries[element.v] IN
              IF ~m.has_value
              THEN [text |-> <<"{", element.v, "}">>, errors |-> <<"NoValue">>]
              ELSE IF m.value \in travelled \cup {pattern}
              THEN [text |-> <<"{", element.v, "}">>, errors |-> <<"Cyclic">>]
              ELSE FormatPattern(bundle, m.value, args, travelled \cup {pattern})

RECURSIVE FormatElements(_, _, _, _, _)
FormatElements(bundle, pattern, i, args, travelled) ==
  IF i > Len(pattern) THEN [text |-> <<>>, errors |-> <<>>]
  ELSE LET one == FormatElement(bundle, pattern, pattern[i], args, travelled)
           rest == FormatElements(bundle, pattern, i + 1, args, travelled)
       IN [text |-> one.text \o rest.text, errors |-> one.errors \o rest.errors]

FormatPattern(bundle, pattern, args, travelled) ==
  FormatElements(bundle, pattern, 1, args, travelled)

\* ----------------------------------------------------------------- state
VARIABLES
  pc,                \* "new", "walk" (root loop), "files" (file loop),
                     \* "ready" (Ok returned), "failed" (Err returned)
  default_language,  \* the default_language argument / field
  entries,           \* the top-level entries the root iterator has yielded
  directory_name,    \* the language directory being loaded
  bundle,            \* its bundle
  files_read,        \* how many file entries its iterator has yielded
  added,             \* the messages of its files that add_resource accepted
  translations,      \* the map under construction, then Translator.translations
  result,            \* what Translator::new returned
  builder,           \* the MessageTranslator last returned by translate
  answer             \* the text last returned by a query

vars == <<pc, default_language, entries, directory_name, bundle, files_read, added,
          translations, result, builder, answer>>

Pending == [kind |-> "Pending", directory_path |-> <<>>, detail |-> NoError]
OkTranslator == [kind |-> "Ok", directory_path |-> <<>>, detail |-> NoError]
NoDefaultLanuage == [kind |-> "NoDefaultLanuage", directory_path |-> <<>>, detail |-> NoError]
ReadDirError(path, detail) == [kind |-> "ReadDirError", directory_path |-> path, detail |-> detail]

NoBuilder ==
  [some |-> FALSE, key |-> "", bundle |-> "", message |-> NoMessage, args |-> NoArgs,
   panicked |-> FALSE, language |-> ""]
NoAnswer == [op |-> "none", language |-> "", key |-> "", text |-> <<>>]
NoBundle == NewConcurrent(<<>>)

Init ==
  /\ pc = "new"
  /\ default_language \in DefaultLanguages
  /\ entries = <<>>
  /\ directory_name = ""
  /\ bundle = NoBundle
  /\ files_read = 0
  /\ added = {}
  /\ translations = EmptyMap
  /\ result = Pending
  /\ builder = NoBuilder
  /\ answer = NoAnswer

\* ------------------------------------------------------- Translator::new
\* fs::read_dir(directory_path) fails: new returns ReadDirError.
ReadRootDirErr ==
  /\ pc = "new"
  /\ \E error \in IoErrors :
       /\ result' = ReadDirError(directory_path, error)
       /\ pc' = "failed"
  /\ UNCHANGED <<default_language, entries, directory_name, bundle, files_read, added,
                 translations, builder, answer>>

\* fs::read_dir(directory_path) succeeds: the walk starts on an empty map.
ReadRootDirOk ==
  /\ pc = "new"
  /\ pc' = "walk"
  /\ translations' = EmptyMap
  /\ UNCHANGED <<default_language, entries, directory_name, bundle, files_read, added,
                 result, builder, answer>>

\* The names of the entries the iterator yielded so far.
YieldedNames == {entries[i].name : i \in {j \in 1..Len(entries) : entries[j].ok}}

\* Variant of EntryOutcome that skips an unlistable language directory
\* instead of returning the error.
EntryOutcomeSkipsUnlistable(directory_entry_result) ==
  IF ~GetDirectoryData(directory_entry_result) THEN "continue"
  ELSE IF ParseLanguageIdentifier(directory_entry_result.name) = Invalid THEN "continue"
  ELSE IF directory_entry_result.list_error # NoError THEN "continue"
  ELSE "load"

\* The head of the loop over the root directory, for the entry the iterator
\* yields: continue with the next entry, return the listing error, or go on
\* to load the files.
EntryOutcome(directory_entry_result) ==
  IF ~GetDirectoryData(directory_entry_result) THEN "continue"
  ELSE IF ParseLanguageIdentifier(directory_entry_result.name) = Invalid THEN "continue"
  ELSE IF directory_entry_result.list_error # NoError THEN "return"
  ELSE "load"

NextEntry ==
  /\ pc = "walk"
  /\ Len(entries) < MaxEntries
  /\ \E e \in EntryInputs :
       /\ e.ok => e.name \notin YieldedNames
       /\ entries' = Append(entries, e)
       /\ LET outcome == EntryOutcome(e) IN
            \/ /\ outcome = "continue"
               /\ pc' = "walk"
               /\ UNCHANGED <<directory_name, bundle, files_read, added, result>>
            \/ /\ outcome = "return"
               /\ pc' = "failed"
               /\ result' = ReadDirError(directory_path \o <<e.name>>, e.list_error)
               /\ UNCHANGED <<directory_name, bundle, files_read, added>>
            \/ /\ outcome = "load"
               /\ pc' = "files"
               /\ directory_name' = e.name
               /\ bundle' = NewConcurrent(<<ParseLanguageIdentifier(e.name)>>)
               /\ files_read' = 0
               /\ added' = {}
               /\ UNCHANGED result
  /\ UNCHANGED <<default_language, translations, builder, answer>>

RECURSIVE MessagesOf(_, _)
MessagesOf(resource, i) ==
  IF i > Len(resource) THEN {} ELSE {resource[i]} \cup MessagesOf(resource, i + 1)

\* One iteration of the loop over the files of the language directory.
NextFile ==
  /\ pc = "files"
  /\ files_read < MaxFiles
  /\ \E file \in FileInputs :
       LET loaded == LoadFile(bundle, file) IN
         /\ bundle' = loaded.bundle
         /\ added' = IF loaded.outcome = "added"
                     THEN added \cup MessagesOf(file.resource, 1)
                     ELSE added
  /\ files_read' = files_read + 1
  /\ UNCHANGED <<pc, default_language, entries, directory_name, translations, result,
                 builder, answer>>

\* The file iterator is exhausted: translations.insert(directory_name, bundle).
EndOfLanguageDirectory ==
  /\ pc = "files"
  /\ translations' = Put(translations, directory_name, bundle)
  /\ pc' = "walk"
  /\ UNCHANGED <<default_language, entries, directory_name, bundle, files_read, added,
                 result, builder, answer>>

\* Variants of CheckDefault: no check at all; a check that some language
\* was loaded.
CheckDefaultSkipped(map, language) == OkTranslator

CheckDefaultAnyLanguage(map, language) ==
  IF DOMAIN map = {} THEN NoDefaultLanuage ELSE OkTranslator

\* The root iterator is exhausted: the default language is looked for, once.
CheckDefault(map, language) ==
  IF language \notin DOMAIN map THEN NoDefaultLanuage ELSE OkTranslator

\* new returns; its locals are dropped.
EndOfDirectory ==
  /\ pc = "walk"
  /\ result' = CheckDefault(translations, default_language)
  /\ pc' = IF result'.kind = "Ok" THEN "ready" ELSE "failed"
  /\ directory_name' = ""
  /\ bundle' = NoBundle
  /\ files_read' = 0
  /\ added' = {}
  /\ UNCHANGED <<default_language, entries, translations, builder, answer>>

\* ------------------------------------------------------------- queries
\* The caller makes one query at a time: a builder is dropped when the next
\* query starts, and the text of the previous query is forgotten.

\* What get_message amounts to when an unwrap() finds no default entry.
Panicked == [panicked |-> TRUE, message |-> NoMessage, bundle |-> ""]

\* Variants of GetMessage: without the language fallback; without the key
\* fallback; handing out the store the message was found in.
GetMessageNoLanguageFallback(language, key) ==
  IF language \notin DOMAIN translations
  THEN [panicked |-> FALSE, message |-> NoMessage, bundle |-> default_language]
  ELSE LET message == BundleGetMessage(translations[language], key)
       IN IF ~message.some /\ language # default_language
          THEN [panicked |-> FALSE,
                message |-> BundleGetMessage(translations[default_language], key),
                bundle |-> language]
          ELSE [panicked |-> FALSE, message |-> message, bundle |-> language]

GetMessageNoKeyFallback(language, key) ==
  LET selected == IF language \in DOMAIN translations THEN language ELSE default_language
  IN [panicked |-> FALSE, message |-> BundleGetMessage(translations[selected], key),
      bundle |-> selected]

GetMessageFoundBundle(language, key) ==
  LET selected == IF language \in DOMAIN translations THEN language ELSE default_language
      message == BundleGetMessage(translations[selected], key)
  IN IF ~message.some /\ selected # default_language
     THEN [panicked |-> FALSE,
           message |-> BundleGetMessage(translations[default_language], key),
           bundle |-> default_language]
     ELSE [panicked |-> FALSE, message |-> message, bundle |-> selected]

\* Translator::get_message.  The bundle is returned by reference: the model
\* names it by its key in the map.
GetMessage(language, key) ==
  LET known == language \in DOMAIN translations IN
  IF ~known /\ default_language \notin DOMAIN translations THEN Panicked
  ELSE LET selected == IF known THEN language ELSE default_language
           message == BundleGetMessage(translations[selected], key)
       IN IF ~message.some /\ selected # default_language
          THEN IF default_language \notin DOMAIN translations THEN Panicked
               ELSE [panicked |-> FALSE,
                     message |-> BundleGetMessage(translations[default_language], key),
                     bundle |-> selected]
          ELSE [panicked |-> FALSE, message |-> message, bundle |-> selected]

\* Variant of FormatOrFail that returns an empty text for a missing message.
FormatOrFailEmpty(formatter, message, args) ==
  IF ~message.some THEN <<>>
  ELSE IF ~message.msg.has_value THEN TRANSLATION_FAILED
  ELSE LET translated == FormatPattern(formatter, message.msg.value, args, {})
       IN IF translated.errors = <<>> THEN translated.text ELSE TRANSLATION_FAILED

\* The common tail of translate_without_arguments and build: the failure
\* string for a missing message, a message without value, or any error.
FormatOrFail(formatter, message, args) ==
  IF ~message.some THEN TRANSLATION_FAILED
  ELSE IF ~message.msg.has_value THEN TRANSLATION_FAILED
  ELSE LET translated == FormatPattern(formatter, message.msg.value, args, {})
       IN IF translated.errors = <<>> THEN translated.text ELSE TRANSLATION_FAILED

PanicText == <<"<panic>">>

\* Translator::translate_without_arguments.
TranslateWithoutArgumentsText(language, key) ==
  LET got == GetMessage(language, key) IN
  IF got.panicked THEN PanicText
  ELSE FormatOrFail(translations[got.bundle], got.message, NoArgs)

TranslateWithoutArguments ==
  /\ pc = "ready"
  /\ \E language \in Languages, key \in Keys :
       answer' = [op |-> "translate_without_arguments", language |-> language,
                  key |-> key, text |-> TranslateWithoutArgumentsText(language, key)]
  /\ builder' = NoBuilder
  /\ UNCHANGED <<pc, default_language, entries, directory_name, bundle, files_read, added,
                 translations, result>>

\* Translator::translate: the MessageTranslator it returns.
TranslateBuilder(language, key) ==
  LET got == GetMessage(language, key) IN
  [some |-> TRUE, key |-> key, bundle |-> got.bundle, message |-> got.message,
   args |-> NoArgs, panicked |-> got.panicked, language |-> language]

Translate ==
  /\ pc = "ready"
  /\ \E language \in Languages, key \in Keys :
       builder' = TranslateBuilder(language, key)
  /\ answer' = NoAnswer
  /\ UNCHANGED <<pc, default_language, entries, directory_name, bundle, files_read, added,
                 translations, result>>

\* MessageTranslator::add_argument.
AddArgumentTo(b, name, value) ==
  LET args == IF b.args.some THEN b.args.map ELSE EmptyMap
  IN [b EXCEPT !.args = [some |-> TRUE, map |-> Put(args, name, value)]]

AddArgument ==
  /\ pc = "ready"
  /\ builder.some
  /\ \E name \in ArgNames, value \in ArgValues :
       builder' = AddArgumentTo(builder, name, value)
  /\ UNCHANGED <<pc, default_language, entries, directory_name, bundle, files_read, added,
                 translations, result, answer>>

\* MessageTranslator::build; the builder is only read.
BuildText(b) ==
  IF b.panicked THEN PanicText
  ELSE FormatOrFail(translations[b.bundle], b.message, b.args)

Build ==
  /\ pc = "ready"
  /\ builder.some
  /\ answer' = [op |-> "build", language |-> builder.language, key |-> builder.key,
                text |-> BuildText(builder)]
  /\ UNCHANGED <<pc, default_language, entries, directory_name, bundle, files_read, added,
                 translations, result, builder>>

Next ==
  \/ ReadRootDirErr
  \/ ReadRootDirOk
  \/ NextEntry
  \/ NextFile
  \/ EndOfLanguageDirectory
  \/ EndOfDirectory
  \/ TranslateWithoutArguments
  \/ Translate
  \/ AddArgument
  \/ Build

Spec == Init /\ [][Next]_vars

\* ---------------------------------------------------------------- claims
Returned == pc \in {"ready", "failed"}

EntryIndices == 1..Len(entries)

\* The entry is a subdirectory of the root.
IsSubdirectory(e) == e.ok /\ e.is_dir

ValidName(e) == ParseLanguageIdentifier(e.name) # Invalid

\* The root was listed, and so was every subdirectory the iterator yielded.
RootListed == ~(result.kind = "ReadDirError" /\ result.directory_path = directory_path)

AllListed ==
  RootListed /\ \A i \in EntryIndices : IsSubdirectory(entries[i]) => entries[i].list_error = NoError

HasDefaultDirectory ==
  \E i \in EntryIndices : IsSubdirectory(entries[i]) /\ entries[i].name = default_language

\* The default language is a language identifier.
ValidDefault == ParseLanguageIdentifier(default_language) # Invalid

ValidDirectoryNames ==
  {entries[i].name : i \in {j \in EntryIndices : IsSubdirectory(entries[j]) /\ ValidName(entries[j])}}

\* Every entry was read and its file type determined.
AllEntriesKnown == \A i \in EntryIndices : entries[i].ok /\ entries[i].type_ok

\* C1 as stated: when the root and the subdirectories can all be listed and a
\* subdirectory is named as the default language, new succeeds and the keys
\* of the map are exactly the valid-named subdirectories.
C1_AsStated ==
  (Returned /\ AllListed /\ HasDefaultDirectory)
    => (result.kind = "Ok" /\ DOMAIN translations = ValidDirectoryNames)

\* C1 (amended): the same, for trees all of whose top-level entries are read
\* with their file type determined, and a default language whose name is a
\* valid language identifier.
C1_KeysAreValidDirectories ==
  (Returned /\ AllListed /\ AllEntriesKnown /\ HasDefaultDirectory /\ ValidDefault)
    => (result.kind = "Ok" /\ DOMAIN translations = ValidDirectoryNames)

C1_Witness ==
  /\ pc = "ready" /\ AllListed /\ AllEntriesKnown /\ HasDefaultDirectory
  /\ Len(entries) = MaxEntries
  /\ \E i \in EntryIndices : entries[i].name \notin DOMAIN translations
  /\ DOMAIN translations = ValidDirectoryNames

Selected(language) ==
  IF language \in DOMAIN translations THEN language ELSE default_language

\* C3: for a language that is not a key of the map,
\* translate_without_arguments returns what it returns for the default language.
C3_UnknownLanguageAsDefault ==
  pc = "ready" =>
    /\ \A language \in Languages, key \in Keys :
         language \notin DOMAIN translations
           => TranslateWithoutArgumentsText(language, key)
                = TranslateWithoutArgumentsText(default_language, key)
    /\ (answer.op = "translate_without_arguments" /\ answer.language \notin DOMAIN translations)
         => answer.text = TranslateWithoutArgumentsText(default_language, answer.key)

C3_Witness ==
  /\ pc = "ready"
  /\ answer.op = "translate_without_arguments"
  /\ answer.language \notin DOMAIN translations
  /\ answer.text # TRANSLATION_FAILED
  /\ Cardinality(DOMAIN translations) > 1

\* The key is missing in the loaded, non-default language and present in the
\* default language.
KeyFallsBack(language, key) ==
  /\ language \in DOMAIN translations
  /\ language # default_language
  /\ key \notin DOMAIN translations[language].entries
  /\ key \in DOMAIN translations[default_language].entries

\* C4 as stated: on key fallback the text is the one
\* translate_without_arguments returns for the default language, and it is
\* not the failure string.
C4_AsStated ==
  pc = "ready" =>
    \A language \in Languages, key \in Keys :
      KeyFallsBack(language, key)
        => /\ TranslateWithoutArgumentsText(language, key)
                = TranslateWithoutArgumentsText(default_language, key)
           /\ TranslateWithoutArgumentsText(language, key) # TRANSLATION_FAILED

IsLiteral(m) ==
  m.has_value /\ \A i \in 1..Len(m.value) : m.value[i].t = "text"

LiteralText(m) == [i \in 1..Len(m.value) |-> m.value[i].v]

\* C4 (amended): on key fallback the text is the default language's message
\* formatted without arguments in the requested language's bundle (the failure
\* string when it has no value or formatting reports an error); for a message
\* of literal text only this is that text, as for the default language.
C4_KeyFallbackFormatsDefaultMessage ==
  pc = "ready" =>
    \A language \in Languages, key \in Keys :
      KeyFallsBack(language, key)
        => LET m == translations[default_language].entries[key]
               text == TranslateWithoutArgumentsText(language, key)
           IN /\ text = FormatOrFail(translations[language], SomeMessage(m), NoArgs)
              /\ IsLiteral(m)
                   => /\ text = LiteralText(m)
                      /\ text = TranslateWithoutArgumentsText(default_language, key)

C4_Witness ==
  /\ pc = "ready"
  /\ answer.op = "translate_without_arguments"
  /\ KeyFallsBack(answer.language, answer.key)
  /\ IsLiteral(translations[default_language].entries[answer.key])
  /\ answer.text = <<"Hello">>

\* The key is in neither the selected store nor the default store.
KeyMissing(language, key) ==
  /\ key \notin DOMAIN translations[Selected(language)].entries
  /\ key \notin DOMAIN translations[default_language].entries

\* Every Option<FluentArgs> a builder can have accumulated.
ArgSets ==
  {NoArgs} \cup {[some |-> TRUE, map |-> m] : m \in UNION {[D -> ArgValues] : D \in SUBSET ArgNames}}

\* C5: a key missing in both the selected and the default store yields
\* TRANSLATION_FAILED from translate_without_arguments and from build,
\* whatever the arguments.
C5_MissingKeyFails ==
  pc = "ready" =>
    /\ \A language \in Languages, key \in Keys :
         KeyMissing(language, key)
           => /\ TranslateWithoutArgumentsText(language, key) = TRANSLATION_FAILED
              /\ \A args \in ArgSets :
                   BuildText([TranslateBuilder(language, key) EXCEPT !.args = args])
                     = TRANSLATION_FAILED
    /\ (answer.op # "none" /\ KeyMissing(answer.language, answer.key))
         => answer.text = TRANSLATION_FAILED

C5_Witness ==
  /\ pc = "ready"
  /\ answer.op = "build"
  /\ builder.args.some
  /\ KeyMissing(answer.language, answer.key)
  /\ answer.language \in DOMAIN translations
  /\ answer.text = TRANSLATION_FAILED

\* C6: a returned Translator has its default language as a key, and no query
\* panics.
C6_NoPanic ==
  pc = "ready" =>
    /\ default_language \in DOMAIN translations
    /\ \A language \in Languages, key \in Keys :
         /\ ~GetMessage(language, key).panicked
         /\ TranslateWithoutArgumentsText(language, key) # PanicText
         /\ ~TranslateBuilder(language, key).panicked
    /\ ~builder.panicked
    /\ answer.text # PanicText

C6_Witness ==
  /\ pc = "ready"
  /\ answer.op = "build"
  /\ answer.language \notin DOMAIN translations
  /\ builder.message.some
  /\ answer.text # PanicText

\* C7: the bundle get_message returns is the selected store, also when the
\* message was found by key fallback; the message is the selected store's or
\* the default store's.
C7_BundleIsSelectedStore ==
  pc = "ready" =>
    /\ \A language \in Languages, key \in Keys :
         LET got == GetMessage(language, key) IN
           /\ got.bundle = Selected(language)
           /\ got.message.some
                => got.message \in
                     {BundleGetMessage(translations[Selected(language)], key),
                      BundleGetMessage(translations[default_language], key)}
    /\ builder.some
         => /\ builder.bundle = Selected(builder.language)
            /\ builder.message = GetMessage(builder.language, builder.key).message

C7_Witness ==
  /\ pc = "ready"
  /\ builder.some
  /\ KeyFallsBack(builder.language, builder.key)
  /\ builder.message.some
  /\ builder.bundle = builder.language

\* The walk tried to list this entry: a directory with a valid name.
Recognised(e) == GetDirectoryData(e) /\ ValidName(e)

\* C8: a listing failure of the root or of a valid-named language directory
\* makes new return ReadDirError with that path and cause, at once; an
\* unreadable or malformed entry is only skipped.
C8_ListingFailureIsFatal ==
  /\ result.kind = "ReadDirError"
       => /\ pc = "failed"
          /\ \/ /\ entries = <<>>
                /\ result.directory_path = directory_path
                /\ result.detail \in IoErrors
             \/ /\ entries # <<>>
                /\ LET e == entries[Len(entries)] IN
                     /\ Recognised(e)
                     /\ e.list_error # NoError
                     /\ result = ReadDirError(directory_path \o <<e.name>>, e.list_error)
                     /\ e.name \notin DOMAIN translations
  /\ \A i \in EntryIndices :
       /\ (Recognised(entries[i]) /\ entries[i].list_error # NoError)
            => (i = Len(entries) /\ result.kind = "ReadDirError")
       /\ (~entries[i].ok \/ ~entries[i].type_ok)
            => (i = Len(entries) => result.kind # "ReadDirError")

C8_Witness ==
  /\ pc = "failed"
  /\ result.kind = "ReadDirError"
  /\ Len(entries) = MaxEntries
  /\ ~entries[1].ok \/ ~entries[1].type_ok

Messages(b) == {b.entries[id] : id \in DOMAIN b.entries}

\* C9: no file makes construction fail, and the store of a language
\* directory holds, while it is loaded and once it is in the map, the
\* messages of exactly the files that were read, parsed and added.
C9_StoreHoldsAddedFilesOnly ==
  /\ pc = "files" => (result = Pending /\ Messages(bundle) = added)
  /\ (pc = "walk" /\ entries # <<>> /\ Recognised(entries[Len(entries)]))
       => /\ directory_name \in DOMAIN translations
          /\ Messages(translations[directory_name]) = added

\* C10: two directories that denote the same language identifier leave a
\* single entry in the map.
C10_OneEntryPerIdentifier ==
  \A k1 \in DOMAIN translations, k2 \in DOMAIN translations :
    ParseLanguageIdentifier(k1) = ParseLanguageIdentifier(k2) => k1 = k2

====
